---- MODULE Spec2Model ----
(***************************************************************************)
(* A model of app.py: the ProjectIdeaGenerator class (constructor, the two *)
(* memoized context fetches, generate_ideas) and the script run main().    *)
(*                                                                         *)
(* Texts: a Python str is a TLA+ string, except the paper list, which is   *)
(* the sequence of its lines (the string joined by "\n"), so that each     *)
(* line of the formatted list can be read.  <<>> is the empty paper text.  *)
(***************************************************************************)
EXTENDS Integers, Sequences, FiniteSets, TLC

VARIABLES
    env,          \* os.environ: the two secrets, PyNone when unset
    now,          \* wall clock, in seconds
    ticks,        \* number of clock advances so far (bounds the model)
    infoCache,    \* st.cache_data store of fetch_related_info
    papersCache,  \* st.cache_data store of fetch_paperswithcode_data
    lastInfo,     \* the latest call of fetch_related_info, as observed
    lastPapers,   \* the latest call of fetch_paperswithcode_data, as observed
    hist,         \* per function and topic: the latest call that asked the collaborator and returned
    calls,        \* number of direct calls of the memoized methods (bounds the model)
    run,          \* the local state of the current script run of main()
    ui,           \* elements rendered to the page in the current run
    net           \* collaborator clients created and requests issued in the current run

vars == <<env, now, ticks, infoCache, papersCache, lastInfo, lastPapers, hist, calls, run, ui, net>>

---------------------------------------------------------------------------
(* Bounds of the model *)

MaxResults == 17
MaxTicks == 2
MaxCalls == 3

(* Program constants *)

TTL == 3600
PaperLimit == 15

TickSeconds == TTL \div 2

PyNone == "<None>"
ABSENT == "<absent>"
NULL == "<null>"

EnvNames == {"SERPAPI_API_KEY", "GROQ_API_KEY"}
Keys == {"K1", "K2"}
Topics == {"ai", "AI"}

NoPapersSentinel == <<"No papers found for the given topic.">>
FailedSentinel == <<"Failed to fetch papers. Please try again later.">>

Min(a, b) == IF a < b THEN a ELSE b

---------------------------------------------------------------------------
(* The paper index's answers to requests.get *)

WellFormedEntry(i) ==
    [kind |-> "obj", paper |-> "obj",
     title |-> "T" \o ToString(i), url |-> "U" \o ToString(i)]

WellFormed(n) == [i \in 1..n |-> WellFormedEntry(i)]

\* One entry of a result list with a defect of the given kind.
Defective(e, d) ==
    CASE d = "entry_null"   -> [e EXCEPT !.kind = "null"]
      [] d = "entry_str"    -> [e EXCEPT !.kind = "str"]
      [] d = "paper_absent" -> [e EXCEPT !.paper = "absent"]
      [] d = "paper_null"   -> [e EXCEPT !.paper = "null"]
      [] d = "paper_str"    -> [e EXCEPT !.paper = "str"]
      [] d = "title_absent" -> [e EXCEPT !.title = ABSENT]
      [] d = "title_null"   -> [e EXCEPT !.title = NULL]
      [] d = "url_absent"   -> [e EXCEPT !.url = ABSENT]

Defects == {"entry_null", "entry_str", "paper_absent", "paper_null", "paper_str",
            "title_absent", "title_null", "url_absent"}

\* <<n, p>>: a list of n results whose p-th is defective, within and beyond the first 15
DefectPlaces == {<<2, 1>>, <<MaxResults, 1>>, <<MaxResults, MaxResults>>}

Answer(status, top, results, items) ==
    [net |-> "ok", status |-> status, top |-> top, decodeErr |-> "none",
     results |-> results, items |-> items]

\* 2xx answers with the expected shape: n results, n = 0..MaxResults
GoodAnswers == {Answer(200, "obj", "list", WellFormed(n)) : n \in 0..MaxResults}

\* 2xx JSON answers of another shape
OddAnswers ==
    {Answer(200, "arr", "absent", <<>>),
     Answer(200, "obj", "absent", <<>>),
     Answer(200, "obj", "null", <<>>),
     Answer(200, "obj", "str", <<>>)}
    \cup {Answer(200, "obj", "list", [WellFormed(np[1]) EXCEPT ![np[2]] = Defective(@, d)]) :
             np \in DefectPlaces, d \in Defects}

\* a 2xx answer whose body is not JSON: response.json() raises JSONDecodeError,
\* a RequestException from requests 2.27 on and a plain ValueError before
NotJsonAnswers ==
    {[Answer(200, "notjson", "absent", <<>>) EXCEPT !.decodeErr = c] :
        c \in {"RequestException", "ValueError"}}

\* answers with another final status; a 3xx with no Location header is final
StatusAnswers ==
    {Answer(s, "obj", "list", WellFormed(n)) : s \in {304, 404, 503}, n \in {0, 2}}

\* requests.get raised: no answer arrived
NetFailures ==
    {[Answer(0, "notjson", "absent", <<>>) EXCEPT !.net = f] :
        f \in {"Timeout", "ConnectionError"}}

Responses == GoodAnswers \cup OddAnswers \cup NotJsonAnswers \cup StatusAnswers \cup NetFailures

---------------------------------------------------------------------------
(* fetch_paperswithcode_data: the body under the cache decorator *)

Returned(value, err) == [outcome |-> "return", value |-> value, exc |-> "none", err |-> err]
Raised(exc) == [outcome |-> "raise", value |-> <<>>, exc |-> exc, err |-> FALSE]

raise_for_status_5xxOnly(resp) == 500 =< resp.status /\ resp.status < 600

\* response.raise_for_status(): HTTPError for a 4xx or 5xx status only
raise_for_status(resp) == 400 =< resp.status /\ resp.status < 600

Slice_Uncapped(papers) == papers

\* papers[:15]
Slice(papers) == SubSeq(papers, 1, Min(Len(papers), PaperLimit))

\* paper.get('paper', {}) fails on an entry that is no object; .get('title', ..)
\* fails on a paper that is null or no object
EntryRaises(e) == e.kind # "obj" \/ e.paper \in {"null", "str"}

Field(e, v, default) ==
    IF e.paper = "absent" \/ v = ABSENT THEN default
    ELSE IF v = NULL THEN "None"
    ELSE v

\* f"- {title}\n  {url_abs}": two lines
FormatEntry(e) ==
    <<"- " \o Field(e, e.title, "No Title"), "  " \o Field(e, e.url, "No URL")>>

RECURSIVE JoinLines(_)
JoinLines(entries) ==
    IF entries = <<>> THEN <<>>
    ELSE FormatEntry(Head(entries)) \o JoinLines(Tail(entries))

PapersBody(resp) ==
    IF resp.net # "ok" THEN Returned(FailedSentinel, TRUE)
    ELSE IF raise_for_status(resp) THEN Returned(FailedSentinel, TRUE)
    ELSE IF resp.top = "notjson" THEN
        IF resp.decodeErr = "RequestException" THEN Returned(FailedSentinel, TRUE)
        ELSE Raised("ValueError")
    ELSE IF resp.top # "obj" THEN Raised("AttributeError")
    ELSE IF resp.results \in {"absent", "null"} THEN Returned(NoPapersSentinel, FALSE)
    ELSE IF resp.results = "str" THEN Raised("AttributeError")
    ELSE IF resp.items = <<>> THEN Returned(NoPapersSentinel, FALSE)
    ELSE IF \E i \in DOMAIN Slice(resp.items) : EntryRaises(resp.items[i])
        THEN Raised("AttributeError")
    ELSE Returned(JoinLines(Slice(resp.items)), FALSE)

---------------------------------------------------------------------------
(* fetch_related_info: the body under the cache decorator *)

\* what SerpAPIWrapper(...).run(query) does: a summary, an empty summary, or an exception
SearchOutcomes ==
    {[raises |-> FALSE, text |-> "S1"], [raises |-> FALSE, text |-> ""],
     [raises |-> TRUE, text |-> ""]}

\* try: return serpapi.run(query); except Exception: st.error(..); return ""
InfoBody(o) ==
    IF o.raises THEN [value |-> "", err |-> TRUE]
    ELSE [value |-> o.text, err |-> FALSE]

---------------------------------------------------------------------------
(* st.cache_data(ttl=3600): a store keyed by the call's arguments.  A hit  *)
(* returns the stored value without running the body; only a body that    *)
(* returns stores a value.                                                *)

Fresh_NeverExpires(cache, k) == k \in DOMAIN cache

\* an entry is served while it is younger than the ttl
Fresh(cache, k) == k \in DOMAIN cache /\ now < cache[k].at + TTL

Put(cache, k, value) ==
    [a \in DOMAIN cache \cup {k} |-> IF a = k THEN [value |-> value, at |-> now] ELSE cache[a]]

InfoKey_TopicOnly(topic, serpapi_key) == <<topic, "">>

\* the cache key of each memoized function: all of its arguments
InfoKey(topic, serpapi_key) == <<topic, serpapi_key>>
PapersKey(topic) == <<topic>>

---------------------------------------------------------------------------
(* Observation of the memoized calls *)

NoInfoCall == [ok |-> FALSE, at |-> 0, value |-> ""]
NoPapersCall == [ok |-> FALSE, at |-> 0, value |-> <<>>]

\* the latest populating call of fetch_related_info for the topic, whatever its key
InfoPrevTopic(topic) ==
    LET S == {k \in Keys : hist.info[<<topic, k>>].ok}
    IN  IF S = {} THEN NoInfoCall
        ELSE hist.info[<<topic, CHOOSE k \in S :
                 \A j \in S : hist.info[<<topic, j>>].at =< hist.info[<<topic, k>>].at>>]

\* fetch_related_info(topic, serpapi_key) through st.cache_data, r: called from the current script run;
\* o is what the search collaborator does if it is asked
fetch_related_info(r, topic, serpapi_key, o) ==
    LET k == InfoKey(topic, serpapi_key)
        hit == Fresh(infoCache, k)
        b == InfoBody(o)
    IN  /\ infoCache' = IF hit THEN infoCache ELSE Put(infoCache, k, b.value)
        /\ lastInfo' = [called |-> TRUE, inRun |-> r, topic |-> topic, key |-> serpapi_key,
                        at |-> now, issued |-> ~hit,
                        value |-> IF hit THEN infoCache[k].value ELSE b.value,
                        err |-> ~hit /\ b.err,
                        prevSame |-> hist.info[<<topic, serpapi_key>>],
                        prevTopic |-> InfoPrevTopic(topic)]
        /\ hist' = IF hit THEN hist
                   ELSE [hist EXCEPT !.info[<<topic, serpapi_key>>] =
                            [ok |-> TRUE, at |-> now, value |-> b.value]]

\* fetch_paperswithcode_data(topic) through st.cache_data, r: called from the current script run;
\* resp is what the paper index does if it is asked.  A call that raises stores nothing.
fetch_paperswithcode_data(r, topic, resp) ==
    LET k == PapersKey(topic)
        hit == Fresh(papersCache, k)
        b == PapersBody(resp)
        stores == ~hit /\ b.outcome = "return"
    IN  /\ papersCache' = IF stores THEN Put(papersCache, k, b.value) ELSE papersCache
        /\ lastPapers' = [called |-> TRUE, inRun |-> r, topic |-> topic, at |-> now,
                          issued |-> ~hit, resp |-> resp,
                          outcome |-> IF hit THEN "return" ELSE b.outcome,
                          exc |-> IF hit THEN "none" ELSE b.exc,
                          value |-> IF hit THEN papersCache[k].value ELSE b.value,
                          err |-> ~hit /\ b.err,
                          prev |-> hist.papers[topic]]
        /\ hist' = IF stores
                   THEN [hist EXCEPT !.papers[topic] = [ok |-> TRUE, at |-> now, value |-> b.value]]
                   ELSE hist

---------------------------------------------------------------------------
(* The state after import: nothing cached, no run started *)

IdleRun ==
    [pc |-> "idle", bound |-> {}, serpapi_key |-> PyNone,
     topic |-> "", generate_button |-> FALSE,
     project_complexity |-> "", number_of_projects |-> 0,
     serpapi_data |-> "", papers_data |-> <<>>, result |-> PyNone,
     exc |-> "none", llm |-> "none",
     genArgs |-> [topic |-> "", complexity |-> "", num_projects |-> 0,
                  serpapi_data |-> "", papers_data |-> <<>>]]

Init ==
    /\ env = [n \in EnvNames |-> PyNone]
    /\ now = 0
    /\ ticks = 0
    /\ infoCache = <<>>
    /\ papersCache = <<>>
    /\ lastInfo = [called |-> FALSE, inRun |-> FALSE, topic |-> "", key |-> "", at |-> 0,
                   issued |-> FALSE, value |-> "", err |-> FALSE,
                   prevSame |-> NoInfoCall, prevTopic |-> NoInfoCall]
    /\ lastPapers = [called |-> FALSE, inRun |-> FALSE, topic |-> "", at |-> 0,
                     issued |-> FALSE, resp |-> Answer(0, "notjson", "absent", <<>>),
                     outcome |-> "return", exc |-> "none", value |-> <<>>, err |-> FALSE,
                     prev |-> NoPapersCall]
    /\ hist = [info |-> [tk \in Topics \X Keys |-> NoInfoCall],
               papers |-> [t \in Topics |-> NoPapersCall]]
    /\ calls = 0
    /\ run = IdleRun
    /\ ui = {}
    /\ net = {}

\* time passes
Tick ==
    /\ ticks < MaxTicks
    /\ now' = now + TickSeconds
    /\ ticks' = ticks + 1
    /\ UNCHANGED <<env, infoCache, papersCache, lastInfo, lastPapers, hist, calls, run, ui, net>>

---------------------------------------------------------------------------
(* The memoized static methods called on their own *)

\* the collaborators' behaviours used to exercise the caches
CacheSearchOutcomes == {[raises |-> FALSE, text |-> "S1"], [raises |-> TRUE, text |-> ""]}
CacheResponses ==
    {Answer(200, "obj", "list", WellFormed(2)),
     Answer(503, "obj", "list", <<>>),
     Answer(200, "obj", "list", [WellFormed(2) EXCEPT ![1] = Defective(@, "paper_null")])}

CallFetchRelatedInfo ==
    \E topic \in Topics, key \in Keys, o \in CacheSearchOutcomes :
        /\ calls < MaxCalls
        /\ calls' = calls + 1
        /\ fetch_related_info(FALSE, topic, key, o)
        /\ UNCHANGED <<env, now, ticks, papersCache, lastPapers, run, ui, net>>

CallFetchPapers ==
    \E topic \in Topics, resp \in CacheResponses :
        /\ calls < MaxCalls
        /\ calls' = calls + 1
        /\ fetch_paperswithcode_data(FALSE, topic, resp)
        /\ UNCHANGED <<env, now, ticks, infoCache, lastInfo, run, ui, net>>

FetchNext == CallFetchRelatedInfo \/ CallFetchPapers \/ Tick

SpecFetch == Init /\ [][FetchNext]_vars

\* fetch_paperswithcode_data called for one topic, the paper index answering in any way
CallPapersAnyAnswer ==
    \E resp \in Responses :
        /\ fetch_paperswithcode_data(FALSE, "ai", resp)
        /\ UNCHANGED <<env, now, ticks, infoCache, lastInfo, calls, run, ui, net>>

PapersNext == CallPapersAnyAnswer \/ Tick

SpecPapers == Init /\ [][PapersNext]_vars

---------------------------------------------------------------------------
(* generate_ideas *)

\* what the chain's invoke does: markdown, an empty reply, or an exception
LLMOutcomes ==
    {[raises |-> FALSE, content |-> "M1"], [raises |-> FALSE, content |-> ""],
     [raises |-> TRUE, content |-> ""]}

\* try: return chain_result.invoke(..).content; except Exception: st.error(..); return None
generate_ideas(l) ==
    IF l.raises THEN [value |-> PyNone, err |-> TRUE]
    ELSE [value |-> l.content, err |-> FALSE]

---------------------------------------------------------------------------
(* main(): one script run, statement by statement *)

\* "not x" of an Optional[str]
Falsy(v) == v = PyNone \/ v = ""

KeysMissing_SerpapiOnly(serpapi_key, groq_api_key) == Falsy(serpapi_key)

\* the guard of the constructor's raise
KeysMissing(serpapi_key, groq_api_key) == Falsy(serpapi_key) \/ Falsy(groq_api_key)

Truthy_NotEmpty(v) == v # ""

\* "if result:" of an Optional[str]
Truthy(v) == v # PyNone /\ v # ""

\* values a .env file can give a variable: none, an empty one, a key
DotenvValues == {PyNone, "", "K1"}
TopicInputs == {"", "ai"}
Complexities == {"Novice Protocol", "Intermediate Sync", "Advanced Nexus"}
Densities == {1, 10}

\* the paper index's behaviours met by script runs
AppResponses ==
    {Answer(200, "obj", "list", WellFormed(2)),
     Answer(200, "obj", "list", <<>>),
     Answer(404, "obj", "list", <<>>),
     [Answer(0, "notjson", "absent", <<>>) EXCEPT !.net = "Timeout"],
     Answer(200, "obj", "list", [WellFormed(2) EXCEPT ![1] = Defective(@, "paper_null")])}

\* an exception leaves the try block for the handler
Throw(exc) == [run EXCEPT !.exc = exc, !.pc = "except"]

\* a rerun starts: load_dotenv() sets the variables that are unset, the header is drawn
MainStart ==
    \E dotenv \in [EnvNames -> DotenvValues] :
        /\ run.pc \in {"idle", "done"}
        /\ env' = [n \in EnvNames |-> IF env[n] = PyNone THEN dotenv[n] ELSE env[n]]
        /\ run' = [IdleRun EXCEPT !.pc = "construct"]
        /\ ui' = {"header"}
        /\ net' = {}
        /\ lastInfo' = [lastInfo EXCEPT !.inRun = FALSE]
        /\ lastPapers' = [lastPapers EXCEPT !.inRun = FALSE]
        /\ UNCHANGED <<now, ticks, infoCache, papersCache, hist, calls>>

\* generator = ProjectIdeaGenerator()
Construct ==
    /\ run.pc = "construct"
    /\ IF KeysMissing(env["SERPAPI_API_KEY"], env["GROQ_API_KEY"])
       THEN /\ run' = Throw("ValueError")
            /\ net' = net
       ELSE /\ run' = [run EXCEPT !.pc = "sidebar", !.bound = @ \cup {"generator"},
                                  !.serpapi_key = env["SERPAPI_API_KEY"]]
            /\ net' = net \cup {"SerpAPIWrapper", "ChatGroq"}
    /\ UNCHANGED <<env, now, ticks, infoCache, papersCache, lastInfo, lastPapers, hist, calls, ui>>

\* the sidebar's widgets return what the user has set
Sidebar ==
    \E topic \in TopicInputs, button \in BOOLEAN, complexity \in Complexities, n \in Densities :
        /\ run.pc = "sidebar"
        /\ run' = [run EXCEPT !.pc = "main_area",
                              !.bound = @ \cup {"topic", "number_of_projects",
                                                "project_complexity", "generate_button"},
                              !.topic = topic, !.generate_button = button,
                              !.project_complexity = complexity, !.number_of_projects = n]
        /\ ui' = ui \cup {"sidebar"}
        /\ UNCHANGED <<env, now, ticks, infoCache, papersCache, lastInfo, lastPapers, hist, calls, net>>

\* if topic: the tabs; if generate_button: .. else: st.info(..)
MainArea ==
    /\ run.pc = "main_area"
    /\ IF run.topic = ""
       THEN /\ run' = [run EXCEPT !.pc = "footer"]
            /\ ui' = ui \cup {"info_input_topic"}
       ELSE IF run.generate_button
       THEN /\ run' = [run EXCEPT !.pc = "fetch_info"]
            /\ ui' = ui \cup {"tabs"}
       ELSE /\ run' = [run EXCEPT !.pc = "tab2"]
            /\ ui' = ui \cup {"tabs", "info_configure"}
    /\ UNCHANGED <<env, now, ticks, infoCache, papersCache, lastInfo, lastPapers, hist, calls, net>>

\* serpapi_data = ProjectIdeaGenerator.fetch_related_info(topic, generator.serpapi_key)
FetchInfo ==
    \E o \in SearchOutcomes :
        /\ run.pc = "fetch_info"
        /\ fetch_related_info(TRUE, run.topic, run.serpapi_key, o)
        /\ run' = [run EXCEPT !.pc = "fetch_papers", !.bound = @ \cup {"serpapi_data"},
                              !.serpapi_data = lastInfo'.value]
        /\ ui' = IF lastInfo'.err THEN ui \cup {"error_fetch_info"} ELSE ui
        /\ net' = IF lastInfo'.issued THEN net \cup {"search"} ELSE net
        /\ UNCHANGED <<env, now, ticks, papersCache, lastPapers, calls>>

\* papers_data = ProjectIdeaGenerator.fetch_paperswithcode_data(topic)
FetchPapers ==
    \E resp \in AppResponses :
        /\ run.pc = "fetch_papers"
        /\ fetch_paperswithcode_data(TRUE, run.topic, resp)
        /\ run' = IF lastPapers'.outcome = "raise" THEN Throw(lastPapers'.exc)
                  ELSE [run EXCEPT !.pc = "generate", !.bound = @ \cup {"papers_data"},
                                   !.papers_data = lastPapers'.value]
        /\ ui' = IF lastPapers'.err THEN ui \cup {"error_fetch_papers"} ELSE ui
        /\ net' = IF lastPapers'.issued THEN net \cup {"papers_get"} ELSE net
        /\ UNCHANGED <<env, now, ticks, infoCache, lastInfo, calls>>

\* result = generator.generate_ideas(topic=.., .., papers_data=papers_data)
Generate ==
    \E l \in LLMOutcomes :
        /\ run.pc = "generate"
        /\ run' = [run EXCEPT !.pc = "render", !.bound = @ \cup {"result"},
                              !.result = generate_ideas(l).value,
                              !.llm = IF l.raises THEN "raised" ELSE "replied",
                              !.genArgs = [topic |-> run.topic,
                                           complexity |-> run.project_complexity,
                                           num_projects |-> run.number_of_projects,
                                           serpapi_data |-> run.serpapi_data,
                                           papers_data |-> run.papers_data]]
        /\ ui' = IF generate_ideas(l).err THEN ui \cup {"error_generate"} ELSE ui
        /\ net' = net \cup {"llm"}
        /\ UNCHANGED <<env, now, ticks, infoCache, papersCache, lastInfo, lastPapers, hist, calls>>

\* if result: the subheader, the markdown and the download button
RenderResult ==
    /\ run.pc = "render"
    /\ run' = [run EXCEPT !.pc = "tab2"]
    /\ ui' = IF Truthy(run.result)
             THEN ui \cup {"result_subheader", "result_markdown", "download_button"}
             ELSE ui
    /\ UNCHANGED <<env, now, ticks, infoCache, papersCache, lastInfo, lastPapers, hist, calls, net>>

\* with tab2: the subheader, then "if serpapi_data:" and "if papers_data:" read the
\* two locals, which are assigned only under "if generate_button:"
Tab2 ==
    /\ run.pc = "tab2"
    /\ IF "serpapi_data" \notin run.bound
       THEN /\ run' = Throw("UnboundLocalError")
            /\ ui' = ui \cup {"streams_subheader"}
       ELSE IF "papers_data" \notin run.bound
       THEN /\ run' = Throw("UnboundLocalError")
            /\ ui' = ui \cup {"streams_subheader"}
                        \cup (IF run.serpapi_data # "" THEN {"web_data"} ELSE {})
       ELSE /\ run' = [run EXCEPT !.pc = "tab3"]
            /\ ui' = ui \cup {"streams_subheader"}
                        \cup (IF run.serpapi_data # "" THEN {"web_data"} ELSE {})
                        \cup (IF run.papers_data # <<>> THEN {"papers_view"} ELSE {})
    /\ UNCHANGED <<env, now, ticks, infoCache, papersCache, lastInfo, lastPapers, hist, calls, net>>

\* with tab3: the instructions
Tab3 ==
    /\ run.pc = "tab3"
    /\ run' = [run EXCEPT !.pc = "footer"]
    /\ ui' = ui \cup {"protocols"}
    /\ UNCHANGED <<env, now, ticks, infoCache, papersCache, lastInfo, lastPapers, hist, calls, net>>

\* except Exception as e: pass
Except ==
    /\ run.pc = "except"
    /\ run' = [run EXCEPT !.pc = "footer"]
    /\ UNCHANGED <<env, now, ticks, infoCache, papersCache, lastInfo, lastPapers, hist, calls, ui, net>>

\* the footer, drawn after the try statement
Footer ==
    /\ run.pc = "footer"
    /\ run' = [run EXCEPT !.pc = "done"]
    /\ ui' = ui \cup {"footer"}
    /\ UNCHANGED <<env, now, ticks, infoCache, papersCache, lastInfo, lastPapers, hist, calls, net>>

Next ==
    \/ MainStart \/ Construct \/ Sidebar \/ MainArea \/ FetchInfo \/ FetchPapers
    \/ Generate \/ RenderResult \/ Tab2 \/ Tab3 \/ Except \/ Footer \/ Tick

Spec == Init /\ [][Next]_vars

---------------------------------------------------------------------------
(* Properties *)

SecretMissing ==
    \/ env["SERPAPI_API_KEY"] \in {PyNone, ""}
    \/ env["GROQ_API_KEY"] \in {PyNone, ""}

ErrorElements == {"error_config", "error_fetch_info", "error_fetch_papers", "error_generate"}
ResultElements == {"result_subheader", "result_markdown", "download_button"}

\* C1: in a run started with a secret missing or empty, the constructor raises
\* before a client is created: no client, no search call, no paper-index GET, no
\* LLM call, and no result on the page, at any point of the run.
C1_NoCallWithoutSecrets ==
    (run.pc \notin {"idle", "construct"} /\ SecretMissing)
        => /\ run.exc = "ValueError"
           /\ "generator" \notin run.bound
           /\ net = {}
           /\ ~lastInfo.inRun /\ ~lastPapers.inRun
           /\ run.llm = "none"
           /\ ui \cap ResultElements = {}

C1_Witness ==
    /\ run.pc = "done"
    /\ env["SERPAPI_API_KEY"] = "K1"
    /\ env["GROQ_API_KEY"] = ""
    /\ run.exc = "ValueError"

\* C2: a run that ends with a secret missing has shown the user an error.
C2_ConfigErrorReported ==
    (run.pc = "done" /\ SecretMissing) => ui \cap ErrorElements # {}

Is2xx(resp) == resp.net = "ok" /\ 200 =< resp.status /\ resp.status < 300

IsWellFormed(e) ==
    e.kind = "obj" /\ e.paper = "obj" /\ e.title \notin {ABSENT, NULL} /\ e.url \notin {ABSENT, NULL}

ExpectedShape(resp) ==
    /\ Is2xx(resp) /\ resp.top = "obj" /\ resp.results = "list"
    /\ \A i \in DOMAIN resp.items : IsWellFormed(resp.items[i])

\* C3: asked of the paper index, a 2xx answer with n well-formed results gives the
\* no-papers sentinel when n = 0 and otherwise the first min(n, 15) results, each
\* as its title line and its URL line, in the answer's order.
C3_FirstFifteenInOrder ==
    (lastPapers.called /\ lastPapers.issued /\ ExpectedShape(lastPapers.resp))
        => LET items == lastPapers.resp.items
               m == Min(Len(items), PaperLimit)
           IN  /\ lastPapers.outcome = "return"
               /\ IF Len(items) = 0 THEN lastPapers.value = NoPapersSentinel
                  ELSE /\ Len(lastPapers.value) = 2 * m
                       /\ \A i \in 1..m :
                            /\ lastPapers.value[2 * i - 1] = "- " \o items[i].title
                            /\ lastPapers.value[2 * i] = "  " \o items[i].url

C3_Witness ==
    /\ lastPapers.called /\ lastPapers.issued /\ ExpectedShape(lastPapers.resp)
    /\ Len(lastPapers.resp.items) > PaperLimit
    /\ Len(lastPapers.value) = 2 * PaperLimit

\* C4 as stated: a call that ends in a non-2xx status or a network failure returns
\* the failure sentinel and does not raise.
C4_Non2xxGivesSentinel ==
    (lastPapers.called /\ lastPapers.issued /\ ~Is2xx(lastPapers.resp))
        => lastPapers.outcome = "return" /\ lastPapers.value = FailedSentinel

\* C4 amended: a call that ends in a 4xx or 5xx status or a network failure
\* returns the failure sentinel and does not raise.
C4_ErrorStatusGivesSentinel ==
    (/\ lastPapers.called /\ lastPapers.issued
     /\ \/ lastPapers.resp.net # "ok"
        \/ lastPapers.resp.status \in 400..599)
        => /\ lastPapers.outcome = "return"
           /\ lastPapers.value = FailedSentinel
           /\ lastPapers.err

C4_Witness ==
    /\ lastPapers.called /\ lastPapers.issued
    /\ lastPapers.resp.net = "ok" /\ lastPapers.resp.status = 404
    /\ lastPapers.value = FailedSentinel

\* C5: a 2xx JSON answer of any shape is tolerated: the call returns and does not raise.
C5_OddShapeTolerated ==
    (/\ lastPapers.called /\ lastPapers.issued
     /\ Is2xx(lastPapers.resp) /\ lastPapers.resp.top # "notjson")
        => lastPapers.outcome = "return"

C7_ContextThenGenerate ==
    /\ run.llm # "none"
        => /\ lastInfo.inRun /\ lastInfo.topic = run.topic
           /\ lastPapers.inRun /\ lastPapers.topic = run.topic
           /\ lastPapers.outcome = "return"
           /\ run.genArgs.topic = run.topic
           /\ run.genArgs.serpapi_data = lastInfo.value
           /\ run.genArgs.papers_data = lastPapers.value
    /\ (run.pc = "done" /\ run.topic # "" /\ run.generate_button) => run.llm # "none"

\* C8: when the LLM call raises, generate_ideas returns None, the error is shown,
\* no exception leaves generate_ideas, no part of the result is rendered, and the
\* run goes on through both other tabs to the footer.
C8_LLMFailureContained ==
    run.llm = "raised"
        => /\ run.result = PyNone
           /\ "error_generate" \in ui
           /\ run.exc = "none"
           /\ ui \cap ResultElements = {}
           /\ run.pc = "done" => {"streams_subheader", "protocols", "footer"} \subseteq ui

C8_Witness ==
    /\ run.llm = "raised"
    /\ run.pc = "done"
    /\ "web_data" \in ui

\* C9 as stated: the caches are keyed by the topic alone: a call of either fetch
\* is served from the cache exactly when a call with the same topic, whatever
\* its key, populated it less than the ttl before.
C9_KeyedByTopicAlone ==
    /\ lastInfo.called
        => /\ ~lastInfo.issued <=>
                (lastInfo.prevTopic.ok /\ lastInfo.at < lastInfo.prevTopic.at + TTL)
           /\ ~lastInfo.issued => lastInfo.value = lastInfo.prevTopic.value
    /\ lastPapers.called
        => /\ ~lastPapers.issued <=>
                (lastPapers.prev.ok /\ lastPapers.at < lastPapers.prev.at + TTL)
           /\ ~lastPapers.issued => lastPapers.value = lastPapers.prev.value

\* C9 amended: the cache of fetch_related_info is keyed by the exact pair of topic
\* and API key, that of fetch_paperswithcode_data by the exact topic alone: a call
\* is served from the cache exactly when a call with the same arguments populated
\* it less than the ttl before.
C9_KeyedByArguments ==
    /\ lastInfo.called
        => /\ ~lastInfo.issued <=>
                (lastInfo.prevSame.ok /\ lastInfo.at < lastInfo.prevSame.at + TTL)
           /\ ~lastInfo.issued => lastInfo.value = lastInfo.prevSame.value
    /\ lastPapers.called
        => /\ ~lastPapers.issued <=>
                (lastPapers.prev.ok /\ lastPapers.at < lastPapers.prev.at + TTL)
           /\ ~lastPapers.issued => lastPapers.value = lastPapers.prev.value

C9_Witness ==
    /\ lastInfo.called /\ lastInfo.issued
    /\ lastInfo.prevTopic.ok /\ lastInfo.at < lastInfo.prevTopic.at + TTL
    /\ ~lastInfo.prevSame.ok

\* C10: a run with a topic ends without an exception, having rendered the context
\* view and the instructions, the summary and the paper list shown exactly when
\* non-empty, whether or not the button was pressed.
C10_TabsRendered ==
    (run.pc = "done" /\ run.topic # "")
        => /\ run.exc = "none"
           /\ {"streams_subheader", "protocols"} \subseteq ui
           /\ "web_data" \in ui <=> run.serpapi_data # ""
           /\ "papers_view" \in ui <=> run.papers_data # <<>>

====
